---- MODULE Spec2Model ----
(***************************************************************************)
(* pyannote-audio command line dispatcher                                  *)
(* (pyannote/audio/applications/pyannote_audio.py, function main).         *)
(*                                                                         *)
(* One run of main() is a sequential program: it reads the parsed          *)
(* arguments `arg`, picks the Application class, books the device, and     *)
(* then walks through the three `if arg[<mode>]` blocks.  Every statement  *)
(* group that a claim distinguishes is one action; `pc` is the position    *)
(* of the interpreter.  Values that Python leaves dynamically typed are    *)
(* tagged records; a Python string that the code parses is a sequence of   *)
(* one-character strings, and a path is a sequence of components.          *)
(***************************************************************************)
EXTENDS Integers, Sequences, FiniteSets, TLC

VARIABLES
    arg,          \* the mapping returned by docopt (never modified)
    pc,           \* position in main()
    Application,  \* the class bound by the if/elif chain
    params,       \* the keyword mapping
    dir,          \* root_dir / train_dir / validate_dir once resolved
    app,          \* the Application instance (None before construction)
    made,         \* every Application object created so far, in order
    calls,        \* every lifecycle call made so far, in order
    log,          \* the observable steps of the run, in order
    exc,          \* the exception that ended the run, if any
    exit          \* how the process ended

vars == <<arg, pc, Application, params, dir, app, made, calls, log, exc, exit>>

(***************************************************************************)
(* Python's None and optional values: the empty set, or a singleton.       *)
(***************************************************************************)
None == {}
Some(v) == {v}
Get(o) == CHOOSE v \in o : TRUE

(***************************************************************************)
(* The outcome of evaluating an expression: a value, or a raised           *)
(* exception with its type and its message (a sequence of words).          *)
(***************************************************************************)
Ok(v) == [ok |-> TRUE, val |-> v]
Raise(t, m) == [ok |-> FALSE, type |-> t, msg |-> m]

(***************************************************************************)
(* int(str) and float(str) on the decimal literals the options carry.      *)
(***************************************************************************)
Digits == {"0", "1", "2", "3", "4", "5", "6", "7", "8", "9"}

DigitVal(c) ==
    CASE c = "0" -> 0 [] c = "1" -> 1 [] c = "2" -> 2 [] c = "3" -> 3
      [] c = "4" -> 4 [] c = "5" -> 5 [] c = "6" -> 6 [] c = "7" -> 7
      [] c = "8" -> 8 [] c = "9" -> 9

\* the number written by the first n digits of s
RECURSIVE PrefixValue(_, _)
PrefixValue(s, n) ==
    IF n = 0 THEN 0 ELSE 10 * PrefixValue(s, n - 1) + DigitVal(s[n])

DigitsValue(s) == PrefixValue(s, Len(s))

AllDigits(s) == \A i \in 1..Len(s) : s[i] \in Digits

Signed(s) == s # <<>> /\ s[1] \in {"+", "-"}
Unsigned(s) == IF Signed(s) THEN Tail(s) ELSE s
Sign(s) == IF s # <<>> /\ s[1] = "-" THEN -1 ELSE 1

\* int(s): ok is FALSE where Python raises ValueError
int(s) ==
    LET body == Unsigned(s) IN
    IF body # <<>> /\ AllDigits(body)
    THEN Ok(Sign(s) * DigitsValue(body))
    ELSE Raise("ValueError", <<"invalid", "literal", "for", "int()">>)

\* a Python float with a finite decimal expansion: mant * 10^(-exp)
Float(m, e) == [mant |-> m, exp |-> e]

\* the same number without trailing zeros after the point
RECURSIVE Normal(_, _)
Normal(m, e) ==
    IF e > 0 /\ m % 10 = 0 THEN Normal(m \div 10, e - 1) ELSE Float(m, e)

\* reads s from position i on; mant is what the digits read so far write,
\* exp how many of them follow the point, dot whether the point was read
RECURSIVE ScanDecimal(_, _, _, _, _)
ScanDecimal(s, i, mant, exp, dot) ==
    IF i > Len(s) THEN Ok(Float(mant, exp))
    ELSE IF s[i] = "." /\ ~dot THEN ScanDecimal(s, i + 1, mant, exp, TRUE)
    ELSE IF s[i] \in Digits
         THEN ScanDecimal(s, i + 1, 10 * mant + DigitVal(s[i]),
                          IF dot THEN exp + 1 ELSE exp, dot)
    ELSE Raise("ValueError", <<"could", "not", "convert", "string", "to", "float">>)

\* float(s): ok is FALSE where Python raises ValueError
float(s) ==
    LET r == ScanDecimal(Unsigned(s), 1, 0, 0, FALSE) IN
    IF r.ok /\ \E i \in 1..Len(s) : s[i] \in Digits
    THEN LET n == Normal(r.val.mant, r.val.exp) IN
         Ok(Float(Sign(s) * n.mant, n.exp))
    ELSE Raise("ValueError", <<"could", "not", "convert", "string", "to", "float">>)

(***************************************************************************)
(* pathlib on a small file system.  A path string is a sequence of         *)
(* components; all the strings of the model are relative.                  *)
(***************************************************************************)
Home == <<"home", "user">>
Cwd  == <<"home", "user", "exp">>

\* the absolute paths that exist
FileSystem ==
    { Home, Cwd,
      Home \o <<"run">>,
      Cwd \o <<"run">>,
      Cwd \o <<"w.pt">> }

DropDots(p) == SelectSeq(p, LAMBDA c : c # ".")

\* Path(s): "." components are dropped, nothing is looked up
Path(s) == [type |-> "Path", abs |-> FALSE, parts |-> DropDots(s)]

\* Path.expanduser(): a leading "~" becomes the home directory
expanduser(p) ==
    IF ~p.abs /\ p.parts # <<>> /\ Head(p.parts) = "~"
    THEN [p EXCEPT !.abs = TRUE, !.parts = Home \o Tail(p.parts)]
    ELSE p

absolute(p) == IF p.abs THEN p ELSE [p EXCEPT !.abs = TRUE, !.parts = Cwd \o p.parts]

\* Path.exists()
exists(p) == absolute(p).parts \in FileSystem

\* Path.resolve(strict): the absolute path; with strict, a missing path raises
resolve(p, strict) ==
    IF strict /\ ~exists(p)
    THEN Raise("FileNotFoundError", <<"No", "such", "file", "or", "directory">>)
    ELSE Ok(absolute(p))

(***************************************************************************)
(* The parsed arguments.  docopt returns one entry per command, positional *)
(* and option of the usage text: a command or a flag is a boolean, an      *)
(* option with an argument is its string, its [default: ...] string when   *)
(* it is not given, or None when it has no default.                        *)
(***************************************************************************)
Tasks == {"sad", "scd", "ovl", "emb", "dom"}
Modes == {"train", "validate", "apply"}

DefaultFrom      == <<"0">>
DefaultTo        == <<"1", "0", "0">>
DefaultBatch     == <<"3", "2">>
DefaultStep      == <<"0", ".", "2", "5">>
DefaultEvery     == <<"1">>
DefaultPurity    == <<"0", ".", "9">>
DefaultPrecision == <<"0", ".", "8">>

\* the positional of each mode
Positional(mode) ==
    CASE mode = "train" -> "<root>"
      [] mode = "validate" -> "<train>"
      [] mode = "apply" -> "<validate>"

\* the options of the [options] group that the runs of the model leave at
\* their defaults, and one command line that sets all of them
OptionsNotGiven ==
    [batch |-> DefaultBatch, step |-> DefaultStep, every |-> DefaultEvery,
     evergreen |-> FALSE, parallel |-> None, purity |-> DefaultPurity,
     diarization |-> FALSE, precision |-> DefaultPrecision]

OptionsGiven ==
    [batch |-> <<"6", "4">>, step |-> <<"0", ".", "5", "0">>, every |-> <<"5">>,
     evergreen |-> TRUE, parallel |-> Some(<<"2">>), purity |-> <<".", "9", "5">>,
     diarization |-> TRUE, precision |-> <<"1">>]

DirStrings  == { <<".", "run">>, <<"~", "run">>, <<"missing">> }
SubsetGiven == {None, Some("development")}
FromStrings == { DefaultFrom, <<"2", "0">>, <<"l", "a", "s", "t">> }
ToStrings   == { DefaultTo, <<"5", "0">> }
PretrainedGiven == {None, Some(<<"w.pt">>), Some(<<"sad_ami">>)}
DurationGiven   == {None, Some(<<"3", ".", "5">>), Some(<<"2", "s">>)}
MetricGiven     == {None, Some("angular")}

ArgOf(task, mode, d, gpu, subset, from, to, pretrained, duration, metric, o) ==
    [t \in Tasks |-> t = task] @@ [m \in Modes |-> m = mode]
    @@ [x \in {"<root>", "<train>", "<validate>"} |->
            IF x = Positional(mode) THEN Some(d) ELSE None]
    @@ ("<protocol>" :> "Debug.SpeakerDiarization.Debug")
    @@ ("--subset" :> subset) @@ ("--gpu" :> gpu)
    @@ ("--from" :> from) @@ ("--to" :> to)
    @@ ("--batch" :> o.batch) @@ ("--step" :> o.step)
    @@ ("--duration" :> duration) @@ ("--metric" :> metric)
    @@ ("--pretrained" :> pretrained)
    @@ ("--every" :> o.every) @@ ("--evergreen" :> o.evergreen)
    @@ ("--parallel" :> o.parallel) @@ ("--purity" :> o.purity)
    @@ ("--diarization" :> o.diarization) @@ ("--precision" :> o.precision)

\* docopt(__doc__): the usage patterns give exactly one task and one mode
docopt ==
    { ArgOf(task, mode, d, gpu, subset, from, to, pretrained, duration, metric, o) :
        task \in Tasks, mode \in Modes, d \in DirStrings, gpu \in BOOLEAN,
        subset \in SubsetGiven, from \in FromStrings, to \in ToStrings,
        pretrained \in PretrainedGiven, duration \in DurationGiven,
        metric \in MetricGiven, o \in {OptionsNotGiven, OptionsGiven} }

(***************************************************************************)
(* The collaborators, as far as main() observes them.                      *)
(***************************************************************************)
\* the names bound at module level by the import statements
ModuleNames ==
    {"docopt", "Path", "multiprocessing", "torch",
     "SpeechActivityDetection", "SpeakerChangeDetection", "OverlapDetection",
     "SpeakerEmbedding", "DomainClassification"}

\* multiprocessing.cpu_count()
CpuCount == 4

\* torch.Tensor([0]).to(device): TRUE when the allocation succeeds; only the
\* accelerator can be missing
ProbeOutcomes(device) == IF device = "cuda" THEN BOOLEAN ELSE {TRUE}

\* what getattr(app.task_, 'duration', None) and getattr(app.task_, 'metric',
\* None) can find on the task of an Application
TaskDurations == {None, Some(Float(2, 0))}
TaskMetrics   == {None, Some("cosine")}

\* torch.hub.load(..., return_path=True): the path of the downloaded
\* checkpoint, or any exception
HubOutcomes ==
    { Ok([type |-> "str", val |-> <<".cache", "torch", "sad_ami.pt">>]),
      Raise("HTTPError", <<"HTTP", "Error", "404:", "Not", "Found">>) }

\* getattr(obj, name, None)
getattr(obj, name) == obj[name]

(***************************************************************************)
(* The statements of main().                                               *)
(***************************************************************************)
\* SelectApplication with the branches of sad and scd exchanged
SelectApplicationSwapped(a) ==
    IF a["sad"] THEN "SpeakerChangeDetection"
    ELSE IF a["scd"] THEN "SpeechActivityDetection"
    ELSE IF a["ovl"] THEN "OverlapDetection"
    ELSE IF a["emb"] THEN "SpeakerEmbedding"
    ELSE IF a["dom"] THEN "DomainClassification"
    ELSE "unbound"

\* the if/elif chain binding Application
SelectApplication(a) ==
    IF a["sad"] THEN "SpeechActivityDetection"
    ELSE IF a["scd"] THEN "SpeakerChangeDetection"
    ELSE IF a["ovl"] THEN "OverlapDetection"
    ELSE IF a["emb"] THEN "SpeakerEmbedding"
    ELSE IF a["dom"] THEN "DomainClassification"
    ELSE "unbound"

\* torch.device('cuda') if arg['--gpu'] else torch.device('cpu')
SelectDevice(a) == IF a["--gpu"] THEN "cuda" ELSE "cpu"

\* params[k] = v
Set(p, k, v) == [x \in (DOMAIN p) \cup {k} |-> IF x = k THEN v ELSE p[x]]

\* SubsetOr that forgets the --subset option
SubsetOrDefault(a, default) == default

\* default if subset is None else subset
SubsetOr(a, default) ==
    LET subset == a["--subset"] IN
    IF subset = None THEN default ELSE Get(subset)

\* str(n) of an int, as the f-string of the message formats warm_start
DigitChar(d) ==
    CASE d = 0 -> "0" [] d = 1 -> "1" [] d = 2 -> "2" [] d = 3 -> "3"
      [] d = 4 -> "4" [] d = 5 -> "5" [] d = 6 -> "6" [] d = 7 -> "7"
      [] d = 8 -> "8" [] d = 9 -> "9"

RECURSIVE NatStr(_)
NatStr(n) == IF n < 10 THEN DigitChar(n) ELSE NatStr(n \div 10) \o DigitChar(n % 10)

str(n) == IF n < 0 THEN "-" \o NatStr(-n) ELSE NatStr(n)

\* sys.exit(msg) inside `except Exception as e`: the name sys has to be bound
\* for the call to happen; an exception raised while e is handled keeps e as
\* its context
sys_exit(msg, e) ==
    IF "sys" \in ModuleNames THEN Raise("SystemExit", msg)
    ELSE [ok |-> FALSE, type |-> "NameError",
          msg |-> <<"name", "'sys'", "is", "not", "defined">>,
          context |-> e.msg]

\* the guards that lead the train block into the try statement
NeedsHub(a) ==
    /\ int(a["--from"]).ok
    /\ a["--pretrained"] # None
    /\ ~exists(Path(Get(a["--pretrained"])))

\* WarmStart that tests the checkpoint but forgets to assign it
WarmStartKeepsEpoch(a, hub) ==
    LET from == int(a["--from"])
        pretrained == a["--pretrained"]
    IN  IF ~from.ok THEN from
        ELSE IF pretrained = None THEN Ok([type |-> "int", val |-> from.val])
        ELSE IF exists(Path(Get(pretrained))) THEN Ok([type |-> "int", val |-> from.val])
        ELSE IF hub.ok THEN hub
        ELSE sys_exit(<<"Could", "not", "load">> \o hub.msg, hub)

\* the warm_start of the train block, given what torch.hub.load would do
WarmStart(a, hub) ==
    LET from == int(a["--from"])
        pretrained == a["--pretrained"]
    IN  IF ~from.ok THEN from
        ELSE IF pretrained = None THEN Ok([type |-> "int", val |-> from.val])
        ELSE IF exists(Path(Get(pretrained))) THEN Ok(Path(Get(pretrained)))
        ELSE IF hub.ok THEN hub
        ELSE sys_exit(<<"Could", "not", "load",
                        "\"" \o str(from.val) \o "\"",
                        "model", "from", "torch.hub.", "The", "following",
                        "exception", "was", "raised:">> \o hub.msg, hub)

\* Duration that asks the task first and the option last
DurationTaskFirst(a, ap) ==
    LET found == getattr(ap.task_, "duration") IN
    IF found # None THEN Ok(Get(found))
    ELSE IF a["--duration"] # None THEN float(Get(a["--duration"]))
    ELSE Raise("ValueError",
               <<"Task", "has", "no", "'duration'", "defined.", "Use",
                 "'--duration'", "option", "to", "provide", "one.">>)

\* duration: the option, else the task's attribute, else ValueError
Duration(a, ap) ==
    LET duration == a["--duration"] IN
    IF duration = None
    THEN LET found == getattr(ap.task_, "duration") IN
         IF found = None
         THEN Raise("ValueError",
                    <<"Task", "has", "no", "'duration'", "defined.", "Use",
                      "'--duration'", "option", "to", "provide", "one.">>)
         ELSE Ok(Get(found))
    ELSE float(Get(duration))

\* metric: the option, else the task's attribute, else ValueError
Metric(a, ap) ==
    LET metric == a["--metric"] IN
    IF metric = None
    THEN LET found == getattr(ap.task_, "metric") IN
         IF found = None
         THEN Raise("ValueError",
                    <<"Approach", "has", "no", "'metric'", "defined.", "Use",
                      "'--metric'", "option", "to", "provide", "one.">>)
         ELSE Ok(Get(found))
    ELSE Ok(Get(metric))

\* n_jobs: the option, else the number of CPUs
NJobs(a) ==
    LET n_jobs == a["--parallel"] IN
    IF n_jobs = None THEN Ok(CpuCount) ELSE int(Get(n_jobs))

\* one assignment params[key] = <expression>, with what evaluating the
\* expression does that can be observed from outside
Stmt(k, r) == [key |-> k, res |-> r, note |-> << >>]

\* the position of the first assignment whose expression raises, 0 if none
FirstRaise(stmts) ==
    IF \A i \in 1..Len(stmts) : stmts[i].res.ok THEN 0
    ELSE CHOOSE i \in 1..Len(stmts) :
           ~stmts[i].res.ok /\ \A j \in 1..(i - 1) : stmts[j].res.ok

\* what evaluating the first n assignments shows, in order
RECURSIVE Ran(_, _)
Ran(stmts, n) ==
    IF n = 0 THEN << >>
    ELSE Ran(stmts, n - 1) \o <<stmts[n].key>> \o stmts[n].note

\* params after the first `last` assignments
Assigned(p, stmts, last) ==
    [k \in (DOMAIN p) \cup {stmts[i].key : i \in 1..last} |->
        IF \E i \in 1..last : stmts[i].key = k
        THEN stmts[CHOOSE i \in 1..last :
                     stmts[i].key = k /\ \A j \in (i + 1)..last : stmts[j].key # k].res.val
        ELSE p[k]]

\* the assignments in order: the first expression that raises ends the run,
\* with the keys assigned before it in place; ran lists the assignments whose
\* expression was evaluated
Exec(p, stmts) ==
    CHOOSE r \in
      { IF n = 0
        THEN [ok |-> TRUE, params |-> Assigned(p, stmts, Len(stmts)),
              ran |-> Ran(stmts, Len(stmts))]
        ELSE [stmts[n].res EXCEPT !.ok = FALSE]
               @@ [params |-> Assigned(p, stmts, n - 1), ran |-> Ran(stmts, n)]
        : n \in {FirstRaise(stmts)} } : TRUE

\* TrainStatements that also forwards the batch size
TrainStatementsWithBatch(a, hub) ==
    << Stmt("subset", Ok(SubsetOr(a, "train"))),
       Stmt("warm_start", WarmStart(a, hub)),
       Stmt("epochs", int(a["--to"])),
       Stmt("batch_size", int(a["--batch"])) >>

\* the assignments of the train block
TrainStatements(a, hub) ==
    << Stmt("subset", Ok(SubsetOr(a, "train"))),
       [Stmt("warm_start", WarmStart(a, hub)) EXCEPT !.note =
            IF NeedsHub(a) THEN <<IF hub.ok THEN "fetch" ELSE "fetch failed">>
            ELSE << >>],
       Stmt("epochs", int(a["--to"])) >>

\* ValidateStatements without the test of the emb command
ValidateStatementsAnyTask(a, ap) ==
    << Stmt("subset", Ok(SubsetOr(a, "development"))),
       Stmt("start", int(a["--from"])),
       Stmt("end", int(a["--to"])),
       Stmt("every", int(a["--every"])),
       Stmt("chronological", Ok(~a["--evergreen"])),
       Stmt("batch_size", int(a["--batch"])),
       Stmt("n_jobs", NJobs(a)),
       Stmt("purity", float(a["--purity"])),
       Stmt("diarization", Ok(a["--diarization"])),
       Stmt("precision", float(a["--precision"])),
       Stmt("duration", Duration(a, ap)),
       Stmt("step", float(a["--step"])),
       Stmt("metric", Metric(a, ap)) >>

\* the assignments of the validate block
ValidateStatements(a, ap) ==
    << Stmt("subset", Ok(SubsetOr(a, "development"))),
       Stmt("start", int(a["--from"])),
       Stmt("end", int(a["--to"])),
       Stmt("every", int(a["--every"])),
       Stmt("chronological", Ok(~a["--evergreen"])),
       Stmt("batch_size", int(a["--batch"])),
       Stmt("n_jobs", NJobs(a)),
       Stmt("purity", float(a["--purity"])),
       Stmt("diarization", Ok(a["--diarization"])),
       Stmt("precision", float(a["--precision"])),
       Stmt("duration", Duration(a, ap)),
       Stmt("step", float(a["--step"])) >>
    \o (IF a["emb"] THEN << Stmt("metric", Metric(a, ap)) >> ELSE << >>)

\* the assignments of the apply block
ApplyStatements(a, ap) ==
    << Stmt("subset", Ok(SubsetOr(a, "test"))),
       Stmt("batch_size", int(a["--batch"])),
       Stmt("duration", Duration(a, ap)),
       Stmt("step", float(a["--step"])) >>

\* Probe that allocates nothing, so that nothing can fail
ProbeUnchecked(device, available) == Ok(device)

\* torch.Tensor([0]).to(device), given whether the device can be allocated
Probe(device, available) ==
    IF available THEN Ok(device)
    ELSE Raise("RuntimeError", <<"No", "CUDA", "GPUs", "are", "available">>)

\* ModeDir with resolve(strict=False)
ModeDirLenient(a, key) ==
    IF a[key] = None
    THEN Raise("TypeError", <<"expected", "str,", "not", "NoneType">>)
    ELSE resolve(expanduser(Path(Get(a[key]))), FALSE)

\* Path(arg[<positional>]).expanduser().resolve(strict=True)
ModeDir(a, key) ==
    IF a[key] = None
    THEN Raise("TypeError", <<"expected", "str,", "not", "NoneType">>)
    ELSE resolve(expanduser(Path(Get(a[key]))), TRUE)

\* an Application object: how it was made, and the task it carries
Instance(cls, via, d, training, task) ==
    [cls |-> cls, via |-> via, dir |-> d, training |-> training, task_ |-> task]

\* Call that invokes train whatever the block
CallTrainAlways(method, ap, a, p) ==
    [method |-> "train", cls |-> ap.cls, protocol |-> a["<protocol>"], kwargs |-> p]

\* app.<method>(protocol, **params)
Call(method, ap, a, p) ==
    [method |-> method, cls |-> ap.cls, protocol |-> a["<protocol>"], kwargs |-> p]

\* the three mode blocks follow each other in the body of main()
IfLabel(mode) == "if_" \o mode
AfterBlock(mode) ==
    CASE mode = "train" -> IfLabel("validate")
      [] mode = "validate" -> IfLabel("apply")
      [] mode = "apply" -> "return"

(***************************************************************************)
(* The run.                                                                *)
(***************************************************************************)
Running == [via |-> "running", code |-> 0, stderr |-> <<>>]
NoException == [type |-> "none", msg |-> <<>>]

\* what the interpreter prints for an exception nothing catches: the message
\* of SystemExit, else the traceback, which starts with the context if any
Printed(r) ==
    IF r.type # "SystemExit" /\ "context" \in DOMAIN r
    THEN r.context
         \o <<"During", "handling", "of", "the", "above", "exception,",
              "another", "exception", "occurred:">>
         \o r.msg
    ELSE r.msg

\* an exception that nothing catches ends the process with status 1
Die(r) ==
    /\ pc' = "done"
    /\ exc' = [type |-> r.type, msg |-> r.msg]
    /\ exit' = [via |-> IF r.type = "SystemExit" THEN "sys.exit" ELSE "traceback",
                code |-> 1, stderr |-> Printed(r)]

Init ==
    /\ arg \in docopt
    /\ pc = "task"
    /\ Application = "unbound"
    /\ params = << >>
    /\ dir = None
    /\ app = None
    /\ made = << >>
    /\ calls = << >>
    /\ log = << >>
    /\ exc = NoException
    /\ exit = Running

SelectTask ==
    /\ pc = "task"
    /\ Application' = SelectApplication(arg)
    /\ pc' = "device"
    /\ UNCHANGED <<arg, params, dir, app, made, calls, log, exc, exit>>

BookDevice ==
    /\ pc = "device"
    /\ params' = Set(params, "device", SelectDevice(arg))
    /\ \E available \in ProbeOutcomes(SelectDevice(arg)) :
         LET r == Probe(SelectDevice(arg), available) IN
         /\ log' = Append(log, IF available THEN "probe" ELSE "probe failed")
         /\ IF r.ok THEN pc' = IfLabel("train") /\ UNCHANGED <<exc, exit>>
            ELSE Die(r)
    /\ UNCHANGED <<arg, Application, dir, app, made, calls>>

\* an `if arg[<mode>]:` whose test is false
SkipBlock ==
    /\ \E mode \in Modes :
         /\ pc = IfLabel(mode)
         /\ ~arg[mode]
         /\ pc' = AfterBlock(mode)
    /\ UNCHANGED <<arg, Application, params, dir, app, made, calls, log, exc, exit>>

\* the first statement of a mode block
Resolve(mode, label) ==
    /\ \E r \in {ModeDir(arg, Positional(mode))} :
         /\ log' = Append(log, "resolve")
         /\ IF r.ok THEN dir' = Some(r.val) /\ pc' = label /\ UNCHANGED <<exc, exit>>
            ELSE Die(r) /\ UNCHANGED dir
    /\ UNCHANGED <<arg, Application, params, app, made, calls>>

\* the second statement of a mode block
Construct(via, training, label) ==
    /\ \E td \in TaskDurations, tm \in TaskMetrics :
         LET made_ == Instance(Application, via, Get(dir), training,
                               [duration |-> td, metric |-> tm]) IN
         /\ app' = Some(made_)
         /\ made' = Append(made, made_)
    /\ log' = Append(log, "construct")
    /\ pc' = label
    /\ UNCHANGED <<arg, Application, params, dir, calls, exc, exit>>

\* the assignments to params of a mode block
Assemble(stmts, label) ==
    /\ \E block \in {stmts} :
       \E r \in {Exec(params, block)} :
         /\ params' = r.params
         /\ log' = log \o r.ran
         /\ IF r.ok THEN pc' = label /\ UNCHANGED <<exc, exit>> ELSE Die(r)
    /\ UNCHANGED <<arg, Application, dir, app, made, calls>>

\* the last statement of a mode block
Invoke(method, mode) ==
    /\ calls' = Append(calls, Call(method, Get(app), arg, params))
    /\ log' = Append(log, "call")
    /\ pc' = AfterBlock(mode)
    /\ UNCHANGED <<arg, Application, params, dir, app, made, exc, exit>>

TrainResolve ==
    /\ pc = IfLabel("train")
    /\ arg["train"]
    /\ Resolve("train", "train_app")

TrainConstruct ==
    /\ pc = "train_app"
    /\ Construct("__init__", TRUE, "train_params")

TrainAssemble ==
    /\ pc = "train_params"
    /\ \/ /\ ~NeedsHub(arg)
          /\ Assemble(TrainStatements(arg, Ok(None)), "train_call")
       \/ /\ NeedsHub(arg)
          /\ \E hub \in HubOutcomes :
               Assemble(TrainStatements(arg, hub), "train_call")

TrainCall ==
    /\ pc = "train_call"
    /\ Invoke("train", "train")

ValidateResolve ==
    /\ pc = IfLabel("validate")
    /\ arg["validate"]
    /\ Resolve("validate", "validate_app")

ValidateConstruct ==
    /\ pc = "validate_app"
    /\ Construct("from_train_dir", FALSE, "validate_params")

ValidateAssemble ==
    /\ pc = "validate_params"
    /\ Assemble(ValidateStatements(arg, Get(app)), "validate_call")

ValidateCall ==
    /\ pc = "validate_call"
    /\ Invoke("validate", "validate")

ApplyResolve ==
    /\ pc = IfLabel("apply")
    /\ arg["apply"]
    /\ Resolve("apply", "apply_app")

ApplyConstruct ==
    /\ pc = "apply_app"
    /\ Construct("from_validate_dir", FALSE, "apply_params")

ApplyAssemble ==
    /\ pc = "apply_params"
    /\ Assemble(ApplyStatements(arg, Get(app)), "apply_call")

ApplyCall ==
    /\ pc = "apply_call"
    /\ Invoke("apply", "apply")

\* main() returns: the process ends with status 0
Return ==
    /\ pc = "return"
    /\ pc' = "done"
    /\ exit' = [via |-> "return", code |-> 0, stderr |-> << >>]
    /\ UNCHANGED <<arg, Application, params, dir, app, made, calls, log, exc>>

Next ==
    \/ SelectTask
    \/ BookDevice
    \/ SkipBlock
    \/ TrainResolve
    \/ TrainConstruct
    \/ TrainAssemble
    \/ TrainCall
    \/ ValidateResolve
    \/ ValidateConstruct
    \/ ValidateAssemble
    \/ ValidateCall
    \/ ApplyResolve
    \/ ApplyConstruct
    \/ ApplyAssemble
    \/ ApplyCall
    \/ Return

Spec == Init /\ [][Next]_vars

\* the interpreter executes the next statement as long as there is one
FairSpec == Spec /\ WF_vars(Next)

(***************************************************************************)
(* Properties.                                                             *)
(***************************************************************************)
Done == pc = "done"
Range(q) == {q[i] : i \in 1..Len(q)}
Contains(text, words) ==
    \E i \in 0..(Len(text) - Len(words)) : SubSeq(text, i + 1, i + Len(words)) = words

TheMode == CHOOSE m \in Modes : arg[m]

\* the variant the specification assigns to each task flag
Variant(task) ==
    CASE task = "sad" -> "SpeechActivityDetection"
      [] task = "scd" -> "SpeakerChangeDetection"
      [] task = "ovl" -> "OverlapDetection"
      [] task = "emb" -> "SpeakerEmbedding"
      [] task = "dom" -> "DomainClassification"

\* the directory argument of the mode names no existing path
DirMissing == ~exists(expanduser(Path(Get(arg[Positional(TheMode)]))))

\* C1: every Application object that is created, and every object a
\* lifecycle method is invoked on, is of the variant of the task flag that is
\* set; no object of another variant is ever created.
C1_VariantMatchesFlag ==
    \A t \in Tasks : arg[t] =>
        /\ \A i \in 1..Len(made) : made[i].cls = Variant(t)
        /\ \A i \in 1..Len(calls) : calls[i].cls = Variant(t)
        /\ app # None => Get(app).cls = Variant(t)

C1_Witness ==
    /\ Done /\ arg["dom"] /\ arg["apply"]
    /\ Len(made) = 1 /\ Len(calls) = 1
    /\ calls[1].cls = "DomainClassification"

\* C2: the device is the CPU without --gpu and the accelerator with it; the
\* probe is the first observable step, before any path resolution, any
\* construction and any lifecycle call; after a failed probe none of them
\* happens.
C2_ProbeFirst ==
    /\ "device" \in DOMAIN params =>
           params["device"] = (IF arg["--gpu"] THEN "cuda" ELSE "cpu")
    /\ \A i \in 1..Len(log) : i > 1 => log[1] = "probe"
    /\ (dir # None \/ app # None \/ made # << >> \/ calls # << >>) =>
           (log # << >> /\ log[1] = "probe")
    /\ (log # << >> /\ log[1] = "probe failed") =>
           /\ log = <<"probe failed">>
           /\ Done /\ exit.code # 0
           /\ dir = None /\ app = None /\ made = << >> /\ calls = << >>

C2_Witness ==
    /\ Done /\ arg["--gpu"] /\ arg["train"]
    /\ log = <<"probe failed">>
    /\ exc.type = "RuntimeError"

\* the exception torch.hub.load raises in the model
HubError == CHOOSE r \in HubOutcomes : ~r.ok

\* C3: in train mode, when the remote fetch of --pretrained has thrown, the
\* process has exited through sys.exit with a non-zero status and a message
\* that contains the text of the exception, and train has not been invoked.
C3_FetchFailureExits ==
    (arg["train"] /\ "fetch failed" \in Range(log)) =>
        /\ Done
        /\ exit.via = "sys.exit"
        /\ exit.code # 0
        /\ Contains(exit.stderr, HubError.msg)
        /\ calls = << >>

\* C4: the duration passed to validate and to apply is the float of
\* --duration when the option is given, else the duration attribute of the
\* task of the reconstructed Application; when the resolution finds neither,
\* a ValueError whose message names '--duration' ends the run, and in no
\* case with neither available is validate or apply invoked.
C4_DurationChain ==
    /\ \A i \in 1..Len(calls) :
         calls[i].method \in {"validate", "apply"} =>
           Ok(calls[i].kwargs["duration"]) =
             (IF arg["--duration"] # None THEN float(Get(arg["--duration"]))
              ELSE Ok(Get(Get(app).task_.duration)))
    /\ (/\ ~arg["train"]
        /\ app # None
        /\ arg["--duration"] = None
        /\ Get(app).task_.duration = None) =>
           /\ calls = << >>
           /\ Done => exit.code # 0
           /\ "duration" \in Range(log) =>
                /\ Done
                /\ exc.type = "ValueError"
                /\ "'--duration'" \in Range(exc.msg)

C4_Witness ==
    /\ Done /\ arg["apply"] /\ arg["scd"]
    /\ arg["--duration"] = None
    /\ "duration" \in Range(log)
    /\ exc.type = "ValueError" /\ "'--duration'" \in Range(exc.msg)
    /\ calls = << >>

\* C5: the warm_start passed to train is the path given as --pretrained,
\* neither expanded nor resolved, whatever --from is, when that path exists;
\* it is the integer of --from when --pretrained is not given.
C5_WarmStart ==
    \A i \in 1..Len(calls) :
      calls[i].method = "train" =>
        LET warm_start == calls[i].kwargs["warm_start"]
            pretrained == arg["--pretrained"]
        IN /\ (pretrained # None /\ exists(Path(Get(pretrained)))) =>
                 /\ warm_start = Path(Get(pretrained))
                 /\ warm_start.parts = Get(pretrained)
           /\ pretrained = None =>
                 warm_start = [type |-> "int", val |-> int(arg["--from"]).val]

C5_Witness ==
    /\ Done /\ arg["train"] /\ Len(calls) = 1
    /\ arg["--pretrained"] = Some(<<"w.pt">>)
    /\ arg["--from"] = <<"2", "0">>
    /\ calls[1].kwargs["warm_start"].type = "Path"

\* C6: the subset passed to a lifecycle call is the --subset option when it
\* is given; otherwise it is "train" for train, "development" for validate
\* and "test" for apply.
C6_Subset ==
    \A i \in 1..Len(calls) :
      /\ arg[calls[i].method]
      /\ calls[i].kwargs["subset"] =
           (IF arg["--subset"] # None THEN Get(arg["--subset"])
            ELSE CASE calls[i].method = "train" -> "train"
                   [] calls[i].method = "validate" -> "development"
                   [] calls[i].method = "apply" -> "test")

C6_Witness ==
    /\ Done /\ arg["validate"] /\ Len(calls) = 1
    /\ arg["--subset"] = None
    /\ calls[1].kwargs["subset"] = "development"

\* C7: the keywords of a lifecycle call hold metric exactly when the task is
\* emb and the call is validate; its value is --metric when given, else the
\* metric attribute of the task; with neither, validate is not invoked and a
\* ValueError ends the run (the one naming '--metric' when the resolution is
\* reached); outside emb validate no error names '--metric'.
C7_MetricKey ==
    /\ \A i \in 1..Len(calls) :
         /\ ("metric" \in DOMAIN calls[i].kwargs) <=>
                (arg["emb"] /\ calls[i].method = "validate")
         /\ ("metric" \in DOMAIN calls[i].kwargs) =>
                calls[i].kwargs["metric"] =
                  (IF arg["--metric"] # None THEN Get(arg["--metric"])
                   ELSE Get(Get(app).task_.metric))
    /\ (/\ arg["emb"] /\ arg["validate"]
        /\ app # None
        /\ arg["--metric"] = None
        /\ Get(app).task_.metric = None) =>
           /\ calls = << >>
           /\ Done => exc.type = "ValueError"
           /\ "metric" \in Range(log) => (Done /\ "'--metric'" \in Range(exc.msg))
    /\ ~(arg["emb"] /\ arg["validate"]) =>
           /\ "metric" \notin Range(log)
           /\ "'--metric'" \notin Range(exc.msg)

C7_Witness ==
    /\ Done /\ arg["emb"] /\ arg["validate"] /\ Len(calls) = 1
    /\ arg["--metric"] = None
    /\ calls[1].kwargs["metric"] = "cosine"

\* C8: when the directory argument of the mode names no existing path, no
\* Application is created and no lifecycle method is invoked, the run ends
\* with a non-zero status, and its resolution raises FileNotFoundError,
\* which ends the run.
C8_MissingDirIsFatal ==
    DirMissing =>
        /\ dir = None /\ app = None /\ made = << >> /\ calls = << >>
        /\ "construct" \notin Range(log) /\ "call" \notin Range(log)
        /\ Done => exit.code # 0
        /\ "resolve" \in Range(log) =>
             /\ Done
             /\ exc.type = "FileNotFoundError"
             /\ exit.via = "traceback"

C8_Witness ==
    /\ Done /\ arg["validate"]
    /\ arg["<train>"] = Some(<<"missing">>)
    /\ exc.type = "FileNotFoundError"
    /\ made = << >> /\ calls = << >>

\* a command line with no option at all
NoOptionGiven ==
    /\ ~arg["--gpu"]
    /\ arg["--subset"] = None /\ arg["--pretrained"] = None
    /\ arg["--duration"] = None /\ arg["--metric"] = None
    /\ arg["--from"] = DefaultFrom /\ arg["--to"] = DefaultTo
    /\ arg["--batch"] = DefaultBatch /\ arg["--step"] = DefaultStep
    /\ arg["--every"] = DefaultEvery /\ arg["--parallel"] = None
    /\ arg["--purity"] = DefaultPurity /\ arg["--precision"] = DefaultPrecision
    /\ ~arg["--evergreen"] /\ ~arg["--diarization"]

C10_OneCallThenEnd ==
    /\ <>Done
    /\ [](/\ Len(calls) <= 1
          /\ \A i \in 1..Len(calls) : calls[i].method = TheMode
          /\ Done => /\ exit.via # "running"
                     /\ (Len(calls) = 1) <=> (exc.type = "none")
                     /\ (Len(calls) = 1) <=> (exit.code = 0))
    /\ [][calls # << >> =>
            UNCHANGED <<arg, Application, params, dir, app, made, calls, log, exc>>]_vars
    /\ [][Done => UNCHANGED vars]_vars

C10_Witness ==
    /\ Done /\ arg["validate"] /\ arg["ovl"]
    /\ Len(calls) = 1 /\ calls[1].method = "validate"
    /\ log[Len(log)] = "call"
    /\ exit = [via |-> "return", code |-> 0, stderr |-> << >>]

====
